---- MODULE Spec2Model ----
(***************************************************************************)
(* A model of scraper.py: the resumable crawl of run() over the            *)
(* category -> subcategory -> exhibitor-card -> detail-page tree, with the *)
(* checkpoint file, the output CSV, the position resume and the name-skip  *)
(* gate.  The browser is the environment: every page load, selector wait   *)
(* and DOM reading is answered by a choice from a small set at the moment  *)
(* run() asks for it.  Texts are sequences of one-character strings, so    *)
(* that strip() and lower() are computed and not assumed.                  *)
(***************************************************************************)
EXTENDS Integers, Sequences, FiniteSets, TLC

(***************************************************************************)
(* Bounds of the model.                                                    *)
(***************************************************************************)
\* links the category page shows at most
MaxCats == 2
\* links a subcategory page shows at most
MaxSubs == 2
\* exhibitor cards a listing shows at most
MaxCards == 2
\* exhibitor links the whole site holds at most
MaxOpens == 2
\* the largest retries a _safe_goto call is given when it is taken alone
MaxRetries == 3
\* links the category page and a subcategory page show at most when two
\* invocations are followed
RestartCats == 1
RestartSubs == 1

(***************************************************************************)
(* Texts.                                                                  *)
(***************************************************************************)
\* the characters str.strip() removes, among those a text of the model can
\* hold as one character: space, tab, line feed, carriage return, form feed,
\* the vertical tab 0x0b and the separators 0x1c..0x1f (the last five are
\* written as the characters themselves).  Python also strips 0x85, 0xa0 and
\* the other Unicode spaces, which a text of the model cannot hold.
Whitespace == {" ", "\t", "\n", "\r", "\f", "", "", "", "", ""}

UpperAlpha == <<"A","B","C","D","E","F","G","H","I","J","K","L","M",
                "N","O","P","Q","R","S","T","U","V","W","X","Y","Z">>

LowerAlpha == <<"a","b","c","d","e","f","g","h","i","j","k","l","m",
                "n","o","p","q","r","s","t","u","v","w","x","y","z">>

Digits == {"0","1","2","3","4","5","6","7","8","9"}

RECURSIVE LStrip(_)
LStrip(s) == IF Len(s) > 0 /\ s[1] \in Whitespace THEN LStrip(Tail(s)) ELSE s

RECURSIVE RStrip(_)
RStrip(s) ==
    IF Len(s) > 0 /\ s[Len(s)] \in Whitespace
    THEN RStrip(SubSeq(s, 1, Len(s) - 1))
    ELSE s

\* str.strip()
Strip(s) == RStrip(LStrip(s))

LowerChar(ch) ==
    IF \E k \in 1..26 : UpperAlpha[k] = ch
    THEN LowerAlpha[CHOOSE k \in 1..26 : UpperAlpha[k] = ch]
    ELSE ch

\* str.lower()
Lower(s) == [k \in 1..Len(s) |-> LowerChar(s[k])]

\* sep.join(parts)
RECURSIVE Join(_, _)
Join(parts, sep) ==
    IF Len(parts) = 0 THEN <<>>
    ELSE IF Len(parts) = 1 THEN parts[1]
    ELSE parts[1] \o sep \o Join(Tail(parts), sep)

\* [f(x) for x in xs if x]: the non-empty texts of xs, stripped
StrippedNonEmpty(xs) ==
    SelectSeq([k \in 1..Len(xs) |-> Strip(xs[k])], LAMBDA t : Len(t) > 0)

(***************************************************************************)
(* Program constants.                                                      *)
(***************************************************************************)
BASE_URL == "https://directory.conexpoconagg.com"

VIEW_ALL_LABEL ==
    <<"V","i","e","w"," ","A","l","l"," ",
      "E","x","h","i","b","i","t","o","r","s">>

RESUME_AFTER_COMPANY_NAME ==
    <<"S","t","e","d","m","a","n"," ",
      "M","a","c","h","i","n","e"," ",
      "C","o","m","p","a","n","y">>

CSV_HEADERS ==
    << <<"c","a","t","e","g","o","r","y">>,
       <<"s","u","b","c","a","t","e","g","o","r","y">>,
       <<"c","o","m","p","a","n","y","_","n","a","m","e">>,
       <<"a","d","d","r","e","s","s">>,
       <<"w","e","b","s","i","t","e">>,
       <<"p","h","o","n","e">>,
       <<"d","e","s","c","r","i","p","t","i","o","n">>,
       <<"b","o","o","t","h">> >>

\* retries: int = 2
DefaultRetries == 2

\* urljoin(BASE_URL, href)
UrlJoin(base, href) == <<base, href>>

(***************************************************************************)
(* _safe_goto: outcomes[k] is TRUE when the k-th page.goto times out.      *)
(* The result names whether a load succeeded and how many loads were made. *)
(***************************************************************************)
\* a loop that gives up one attempt early
RECURSIVE GotoLoopOneShort(_, _, _)
GotoLoopOneShort(outcomes, retries, attempt) ==
    IF ~outcomes[attempt + 1]
    THEN [ok |-> TRUE, loads |-> attempt + 1]
    ELSE IF attempt + 1 >= retries
         THEN [ok |-> FALSE, loads |-> attempt + 1]
         ELSE GotoLoopOneShort(outcomes, retries, attempt + 1)

RECURSIVE GotoLoop(_, _, _)
GotoLoop(outcomes, retries, attempt) ==
    IF ~outcomes[attempt + 1]
    THEN [ok |-> TRUE, loads |-> attempt + 1]
    ELSE IF attempt + 1 > retries
         THEN [ok |-> FALSE, loads |-> attempt + 1]
         ELSE GotoLoop(outcomes, retries, attempt + 1)

SafeGoto(outcomes, retries) == GotoLoop(outcomes, retries, 0)

\* what the network can do to the loads of one _safe_goto call
GotoOutcomes(retries) == [1..(retries + 1) -> BOOLEAN]

\* whether _safe_goto(page, url) returns (TRUE) or raises (FALSE)
GotoResults == { SafeGoto(o, DefaultRetries).ok : o \in GotoOutcomes(DefaultRetries) }

(***************************************************************************)
(* _extract_link_text_pairs and the "View All Exhibitors" filter.  An      *)
(* element is [text, href]; href "" stands for a missing or empty href and *)
(* text <<>> for a missing text.                                           *)
(***************************************************************************)
ExtractLinkTextPairs(elements) ==
    LET withHref == SelectSeq(elements, LAMBDA e : e.href # "")
    IN [k \in 1..Len(withHref) |->
            [name |-> Strip(withHref[k].text),
             url  |-> UrlJoin(BASE_URL, withHref[k].href)]]

WithoutViewAll(links) == SelectSeq(links, LAMBDA c : c.name # VIEW_ALL_LABEL)

(***************************************************************************)
(* _extract_exhibitor_details.  A detail page is the DOM readings the      *)
(* function makes: name (text of .exhibitor-name), address (texts of the   *)
(* address paragraphs), website (hrefs of the http links of the contact    *)
(* block), contact (inner text of the contact block), description (texts   *)
(* of #section-description), booth (texts of the booth links).             *)
(***************************************************************************)
PhoneClass == Digits \cup {"-", "(", ")", ".", " "}

\* last position of the class run that starts after position q
RECURSIVE RunEnd(_, _)
RunEnd(s, e) ==
    IF e + 1 <= Len(s) /\ s[e + 1] \in PhoneClass THEN RunEnd(s, e + 1) ELSE e

\* end of the match of \+?\d[\d\-(). ]{6,}\d that starts at p, 0 when none
PhoneMatchAt(s, p) ==
    LET q == IF s[p] = "+" THEN p + 1 ELSE p
    IN IF q > Len(s) \/ s[q] \notin Digits THEN 0
       ELSE LET ends == {e \in (q + 7)..RunEnd(s, q) : s[e] \in Digits}
            IN IF ends = {} THEN 0
               ELSE CHOOSE e \in ends : \A f \in ends : f <= e

\* re.search(...).group(1).strip(), "" when there is no match
PhoneSearch(s) ==
    LET starts == {p \in 1..Len(s) : PhoneMatchAt(s, p) > 0}
    IN IF starts = {} THEN <<>>
       ELSE LET p == CHOOSE x \in starts : \A y \in starts : x <= y
            IN Strip(SubSeq(s, p, PhoneMatchAt(s, p)))

DetailFields(page) ==
    [company_name |-> Strip(page.name),
     address      |-> Join(StrippedNonEmpty(page.address), <<",", " ">>),
     website      |-> IF Len(page.website) > 0 THEN Strip(page.website[1]) ELSE <<>>,
     phone        |-> PhoneSearch(page.contact),
     description  |-> IF Len(page.description) > 0
                      THEN Strip(page.description[1]) ELSE <<>>,
     booth        |-> Join(StrippedNonEmpty(page.booth), <<";", " ">>)]

\* all([company_name, address, website, phone, description, booth])
AllFields(d) ==
    /\ Len(d.company_name) > 0
    /\ Len(d.address) > 0
    /\ Len(d.website) > 0
    /\ Len(d.phone) > 0
    /\ Len(d.description) > 0
    /\ Len(d.booth) > 0

\* the "details is None" result
NoDetails == [valid |-> FALSE, fields |-> DetailFields(
    [name |-> <<>>, address |-> <<>>, website |-> <<>>, contact |-> <<>>,
     description |-> <<>>, booth |-> <<>>])]

ExtractExhibitorDetails(page) ==
    IF AllFields(DetailFields(page))
    THEN [valid |-> TRUE, fields |-> DetailFields(page)]
    ELSE NoDetails

(***************************************************************************)
(* The checkpoint file and the output CSV.                                 *)
(***************************************************************************)
\* checkpoint = {}: every .get() is falsy
EmptyCheckpoint == [category |-> <<>>, subcategory |-> <<>>, exhibitor_index |-> 0]

\* the checkpoint file: whether it exists, whether the JSON text is in it
\* (open("w") at line 151 empties the file, json.dump at line 152 fills it),
\* and the text's content
NoCheckpointFile == [exists |-> FALSE, whole |-> FALSE, data |-> EmptyCheckpoint]

\* the file between lines 151 and 152: it exists and holds nothing
TruncatedCheckpointFile ==
    [exists |-> TRUE, whole |-> FALSE, data |-> EmptyCheckpoint]

\* _load_checkpoint() or {}, when json.load returns
LoadCheckpoint(file) == IF file.exists THEN file.data ELSE EmptyCheckpoint

\* lines 141 and 182: json.load raises on a file that holds nothing, and
\* nothing catches it
CheckpointUnreadable(isFresh, file) == ~isFresh /\ file.exists /\ ~file.whole

\* a start that reads the checkpoint file whatever the flag says
StartCheckpointAlwaysLoads(isFresh, file) == LoadCheckpoint(file)

\* checkpoint = {} if fresh else (_load_checkpoint() or {})
StartCheckpoint(isFresh, file) ==
    IF isFresh THEN EmptyCheckpoint ELSE LoadCheckpoint(file)

\* resume_mode = bool(resume_category and resume_subcategory)
ResumeMode(cp) == Len(cp.category) > 0 /\ Len(cp.subcategory) > 0

\* resume_after_name = "" if fresh else RESUME_AFTER_COMPANY_NAME.strip().lower()
ResumeAfterName(isFresh) ==
    IF isFresh THEN <<>> ELSE Lower(Strip(RESUME_AFTER_COMPANY_NAME))

SaveCheckpoint(category, subcategory, index) ==
    [exists |-> TRUE,
     whole  |-> TRUE,
     data   |-> [category |-> category, subcategory |-> subcategory,
                 exhibitor_index |-> index]]

NoCsvFile == [exists |-> FALSE, lines |-> <<>>]

\* the file between lines 159 and 161: it exists and holds no line
EmptyCsvFile == [exists |-> TRUE, lines |-> <<>>]

\* an initialization that opens the file for writing whether it exists or not
InitCsvTruncating(file) == [exists |-> TRUE, lines |-> <<CSV_HEADERS>>]

\* _init_csv
InitCsv(file) ==
    IF file.exists THEN file ELSE [exists |-> TRUE, lines |-> <<CSV_HEADERS>>]

\* the row dict of run(), written by DictWriter in CSV_HEADERS order
RowLine(category, subcategory, d) ==
    <<category, subcategory, d.company_name, d.address, d.website, d.phone,
      d.description, d.booth>>

\* a writer that opens the file for writing instead of appending
AppendRowTruncating(file, line) == [exists |-> TRUE, lines |-> <<CSV_HEADERS, line>>]

AppendRow(file, line) == [exists |-> TRUE, lines |-> Append(file.lines, line)]

(***************************************************************************)
(* What the site can show.                                                 *)
(***************************************************************************)
NameA == <<"A">>
NameB == <<"B">>
NameS1 == <<"S", "1">>
NameS2 == <<"S", "2">>

\* the links of the category page: text as rendered, href
CategoryElements ==
    { [text |-> NameA, href |-> "cat-A"],
      [text |-> <<" ">> \o NameB \o <<"\r", "\n">>, href |-> "cat-B"],
      [text |-> <<"">> \o VIEW_ALL_LABEL, href |-> "cat-all"],
      [text |-> NameB, href |-> ""] }

\* the links of a category's page
SubcategoryElements ==
    { [text |-> NameS1, href |-> "sub-1"],
      [text |-> <<"\f">> \o NameS2 \o <<" ">>, href |-> "sub-2"],
      [text |-> VIEW_ALL_LABEL \o <<"", "">>, href |-> "sub-all"],
      [text |-> NameS1, href |-> ""] }

\* the element lists of at most n elements
ElementLists(elements, n) ==
    UNION { [1..len -> elements] : len \in 0..n }

\* the category lists run() can read off a page that shows a category link
CategoryLists ==
    { WithoutViewAll(ExtractLinkTextPairs(e)) :
        e \in ElementLists(CategoryElements, MaxCats) \ {<<>>} }

\* the subcategory lists run() can read off a page that shows a subcategory link
SubcategoryLists ==
    { WithoutViewAll(ExtractLinkTextPairs(e)) :
        e \in ElementLists(SubcategoryElements, MaxSubs) \ {<<>>} }

\* the same lists off shorter pages
RestartCategoryLists ==
    { WithoutViewAll(ExtractLinkTextPairs(e)) :
        e \in ElementLists(CategoryElements, RestartCats) \ {<<>>} }

RestartSubcategoryLists ==
    { WithoutViewAll(ExtractLinkTextPairs(e)) :
        e \in ElementLists(SubcategoryElements, RestartSubs) \ {<<>>} }

\* a card: whether it holds an exhibitor link, and the link's href
Hrefs == {"exhid=1", "exhid=2"}

NoLinkCard == [has_link |-> FALSE, href |-> ""]

Cards == {NoLinkCard} \cup { [has_link |-> TRUE, href |-> h] : h \in Hrefs }

\* the cards a listing can show once n detail pages were opened
CardsAfter(n) == IF n < MaxOpens THEN Cards ELSE {NoLinkCard}

TextAddress == <<"1", " ", "M", "a", "i", "n">>
TextWebsite == <<"h", "t", "t", "p", ":", "/", "/", "x", ".", "c", "o">>
TextContact == <<"T", "e", "l", " ", "+", "1", " ", "5", "5", "5", "-",
                 "0", "1", "0", "0", " ", "x">>
TextNoPhone == <<"T", "e", "l", " ", "5", "5", "5">>
TextDescription == <<"d", "e", "s", "c">>
TextBooth == <<"N", "1", "2">>

\* the target's name in another case, with surrounding whitespace
TextTargetVariant ==
    <<" ", "s", "t", "e", "d", "m", "a", "n", " ",
      "M", "A", "C", "H", "I", "N", "E", " ",
      "c", "o", "m", "p", "a", "n", "y", "\r", "\n">>

TextOtherName == <<"A", "c", "m", "e">>

PageIds == {"target", "other", "nophone"}

DetailPage(id) ==
    [name        |-> IF id = "other" THEN TextOtherName ELSE TextTargetVariant,
     address     |-> << <<" ", "">>, TextAddress, <<"U", "S">> >>,
     website     |-> << TextWebsite >>,
     contact     |-> IF id = "nophone" THEN TextNoPhone ELSE TextContact,
     description |-> << TextDescription \o <<"">> >>,
     booth       |-> << TextBooth, <<>>, <<"S", "3">> >>]

\* checkpoints a previous run can have left.  The lists the site can show are
\* closed under exchanging A with B and S1 with S2, so one pair of names stands
\* for all four.
StoredCheckpoints == { SaveCheckpoint(NameB, NameS2, i) : i \in 0..MaxCards }

\* what run() reads off each detail page
Details == [id \in PageIds |-> ExtractExhibitorDetails(DetailPage(id))]

\* the target of the name gate, as the gate compares it
TargetName == Lower(Strip(RESUME_AFTER_COMPANY_NAME))

\* a row a previous run appended
OldLine == RowLine(NameA, NameS1, Details["other"].fields)

(***************************************************************************)
(* The state of one run.                                                   *)
(***************************************************************************)
VARIABLES
    list_categories,        \* --list-categories
    list_subcategories,     \* --list-subcategories
    fresh,                  \* --fresh
    pc,                     \* where run() is
    csv_file,               \* OUTPUT_CSV
    checkpoint_file,        \* CHECKPOINT_FILE
    resume_category,
    resume_subcategory,
    resume_exhibitor_index,
    resume_mode,
    resume_after_name,
    resume_name_found,
    categories,
    ci,                     \* position of "category" in categories, 0 before
    category_started,
    subcategories,
    si,                     \* position of "subcategory" in subcategories
    subcategory_started,
    exhibitor_count,
    exhibitor_index,
    seen_exhibitors,
    csv0,                   \* history: OUTPUT_CSV as the run found it
    last_category,          \* history: what the last category pass did, or that
                            \* the landing page showed no category link
    last_unit,              \* history: what the last subcategory or card pass did
    last_page,              \* history: the detail page the last step read
    last_valid_page,        \* history: the last detail page with all six fields
    name_match_seen,        \* history: a valid record named like the target was read
    opens,                  \* history: the detail pages opened so far
    runs,                   \* the invocations that are followed: 1 or 2
    run,                    \* 1 for the first invocation, 2 for the one after it
    stop,                   \* where the first invocation was interrupted
    goto_call,              \* a call of _safe_goto taken alone: its arguments
    goto_result             \* and what it came to

\* what no step of run() changes
flags == <<list_categories, list_subcategories, fresh, csv0, runs, run, stop,
           goto_call, goto_result>>

resume == <<resume_category, resume_subcategory, resume_exhibitor_index,
            resume_mode, resume_after_name>>

catvars == <<categories, ci, category_started>>

subvars == <<subcategories, si, subcategory_started>>

loopvars == <<exhibitor_count, exhibitor_index, seen_exhibitors>>

\* what only the reading of a detail page changes
quiet == <<last_valid_page, name_match_seen>>

history == <<last_category, last_unit, last_page, quiet, opens>>

vars == <<flags, pc, csv_file, checkpoint_file, resume, resume_name_found,
          catvars, subvars, loopvars, history>>

NoStop == [at |-> "none", categories |-> <<>>, ci |-> 0,
           subcategories |-> <<>>, si |-> 0, index |-> 0, count |-> 0]

\* the first invocation was interrupted inside an exhibitor loop
StoppedInLoop == stop.at \in {"exhibitors", "detail", "back"}

(***************************************************************************)
(* What the site shows.  When two invocations are followed the lists are   *)
(* shorter; and the site does not change under an exhibitor loop that was  *)
(* interrupted: the second invocation is shown the category list, the      *)
(* subcategory list and the count of cards that the first one had in hand; *)
(* its wait for a card can time out all the same.                          *)
(***************************************************************************)
SiteCategoryLists ==
    IF run = 2 /\ StoppedInLoop THEN {stop.categories}
    ELSE IF runs = 2 THEN RestartCategoryLists
    ELSE CategoryLists

SiteSubcategoryLists(k) ==
    IF run = 2 /\ StoppedInLoop /\ k = stop.ci THEN {stop.subcategories}
    ELSE IF runs = 2 THEN RestartSubcategoryLists
    ELSE SubcategoryLists

\* _count_exhibitor_cards, line 88: the count read after a wait that did
\* not time out; it is read from the page anew and can be 0 although a card
\* had shown
SiteCounts(k, j) ==
    IF run = 2 /\ StoppedInLoop /\ k = stop.ci /\ j = stop.si THEN {stop.count}
    ELSE 0..MaxCards

InitRun ==
    /\ list_categories \in BOOLEAN
    /\ list_subcategories \in BOOLEAN
    /\ fresh \in BOOLEAN
    /\ pc = "start"
    /\ csv_file \in {NoCsvFile, [exists |-> TRUE, lines |-> <<CSV_HEADERS, OldLine>>]}
    /\ csv0 = csv_file
    /\ checkpoint_file \in
            IF fresh \/ csv_file.exists
            THEN {SaveCheckpoint(NameB, NameS2, 1)}
            ELSE {NoCheckpointFile} \cup StoredCheckpoints
    /\ resume_category = <<>>
    /\ resume_subcategory = <<>>
    /\ resume_exhibitor_index = 0
    /\ resume_mode = FALSE
    /\ resume_after_name = <<>>
    /\ resume_name_found = FALSE
    /\ categories = <<>>
    /\ ci = 0
    /\ category_started = FALSE
    /\ subcategories = <<>>
    /\ si = 0
    /\ subcategory_started = FALSE
    /\ exhibitor_count = 0
    /\ exhibitor_index = 0
    /\ seen_exhibitors = {}
    /\ last_category = "none"
    /\ last_unit = "none"
    /\ last_page = "none"
    /\ last_valid_page = "none"
    /\ name_match_seen = FALSE
    /\ opens = 0
    /\ run = 1
    /\ stop = NoStop

NoGotoCall == [retries |-> 0, outcomes |-> <<>>]

NoGotoResult == [ok |-> FALSE, loads |-> 0]

Init ==
    /\ InitRun
    /\ runs = 1
    /\ goto_call = NoGotoCall
    /\ goto_result = NoGotoResult

(***************************************************************************)
(* The locals of the loops.  Python leaves them bound to their last values *)
(* when a loop ends; each of them is assigned again before it is read      *)
(* (lines 239, 245, 255, 267, 270), so the model clears them when the walk *)
(* moves on to the next category or subcategory.                           *)
(***************************************************************************)
ClearSubcategoryLocals ==
    /\ subcategories' = <<>>
    /\ si' = 0
    /\ subcategory_started' = FALSE

ClearLoopLocals ==
    /\ exhibitor_count' = 0
    /\ exhibitor_index' = 0
    /\ seen_exhibitors' = {}

\* a timeout nothing catches leaves run(): its locals are gone, the files stay
Raise ==
    /\ pc' = "failed"
    /\ categories' = <<>>
    /\ ci' = 0
    /\ category_started' = FALSE
    /\ ClearSubcategoryLocals
    /\ ClearLoopLocals

(***************************************************************************)
(* run(), lines 181-202: the files, the resume state, the category list,   *)
(* and the --list-categories exit.                                         *)
(***************************************************************************)
Startup ==
    /\ pc = "start"
    /\ csv_file' = InitCsv(csv_file)
    /\ IF CheckpointUnreadable(fresh, checkpoint_file)
       THEN \* line 182: json.load raises
            /\ Raise
            /\ last_category' = "checkpoint_unreadable"
            /\ UNCHANGED <<resume, resume_name_found>>
       ELSE
       LET cp == StartCheckpoint(fresh, checkpoint_file)
       IN /\ resume_category' = cp.category
          /\ resume_subcategory' = cp.subcategory
          /\ resume_exhibitor_index' = cp.exhibitor_index
          /\ resume_mode' = ResumeMode(cp)
          /\ resume_after_name' = ResumeAfterName(fresh)
          /\ resume_name_found' = (Len(ResumeAfterName(fresh)) = 0)
          /\ \E loaded \in GotoResults, link_shown \in BOOLEAN,
                found \in SiteCategoryLists :
                IF ~loaded \/ ~link_shown
                THEN \* the load, or the wait for a category link, timed out
                     /\ Raise
                     /\ last_category' =
                           IF loaded THEN "no_category_link" ELSE last_category
                ELSE /\ UNCHANGED last_category
                     /\ categories' = found
                     /\ ci' = 0
                     \* line 223
                     /\ category_started' = ~ResumeMode(cp)
                     /\ pc' = IF list_categories THEN "done"
                              ELSE IF list_subcategories THEN "list_subcategories"
                              ELSE "categories"
                     /\ UNCHANGED <<subvars, loopvars>>
    /\ UNCHANGED <<flags, checkpoint_file, last_unit, last_page, quiet, opens>>

(***************************************************************************)
(* run(), lines 203-221: --list-subcategories visits every category and    *)
(* writes nothing.                                                         *)
(***************************************************************************)
ListSubcategories ==
    /\ pc = "list_subcategories"
    /\ IF ci = Len(categories)
       THEN /\ pc' = "done"
            /\ UNCHANGED <<catvars, subvars, loopvars>>
       ELSE \E loaded \in GotoResults :
                IF loaded
                THEN /\ ci' = ci + 1
                     /\ UNCHANGED <<pc, categories, category_started, subvars, loopvars>>
                ELSE Raise
    /\ UNCHANGED <<flags, csv_file, checkpoint_file, resume, resume_name_found,
                   history>>

(***************************************************************************)
(* The position resume of run().                                           *)
(***************************************************************************)
\* a category loop with the comparison of line 226 turned around
CategorySkippedWhenNamed(started, name, resumeCategory) ==
    ~started /\ name = resumeCategory

\* a category loop that passes over nothing
CategoryNeverSkipped(started, name, resumeCategory) == FALSE

\* lines 225-229: the category is passed over ("continue")
CategorySkipped(started, name, resumeCategory) ==
    ~started /\ name # resumeCategory

\* line 245
SubcategoryStartedAtEntry(resumeMode, name, resumeCategory) ==
    ~resumeMode \/ name # resumeCategory

\* lines 247-250: the subcategory is passed over ("continue")
SubcategorySkipped(resumeMode, name, resumeCategory, started) ==
    resumeMode /\ name = resumeCategory /\ ~started

\* lines 248-249
SubcategoryStartedAfter(started, name, resumeSubcategory) ==
    started \/ name = resumeSubcategory

\* a loop that always starts at the first card
StartIndexZero(resumeMode, category, subcategory, resumeCategory, resumeSubcategory, resumeIndex) ==
    0

\* lines 267-269
StartIndex(resumeMode, category, subcategory, resumeCategory, resumeSubcategory, resumeIndex) ==
    IF resumeMode /\ category = resumeCategory /\ subcategory = resumeSubcategory
    THEN resumeIndex
    ELSE 0

(***************************************************************************)
(* run(), lines 224-245 and 357-358: one pass of the category loop, or its *)
(* end.                                                                    *)
(***************************************************************************)
NextCategory ==
    /\ pc = "categories"
    /\ IF ci = Len(categories)
       THEN /\ pc' = "done"
            /\ UNCHANGED <<catvars, subvars, loopvars, last_category, last_unit>>
       ELSE LET category == categories[ci + 1]
            IN IF CategorySkipped(category_started, category.name, resume_category)
               THEN /\ ci' = ci + 1
                    /\ last_category' = "skipped"
                    /\ last_unit' = "none"
                    /\ ClearSubcategoryLocals
                    /\ ClearLoopLocals
                    /\ UNCHANGED <<pc, categories, category_started>>
               ELSE \E loaded \in GotoResults, link_shown \in BOOLEAN,
                       found \in SiteSubcategoryLists(ci + 1) :
                       IF ~loaded
                       THEN /\ Raise
                            /\ last_category' = "failed"
                            /\ last_unit' = "none"
                       ELSE /\ ci' = ci + 1
                            /\ category_started' = TRUE
                            /\ last_unit' = "none"
                            /\ ClearLoopLocals
                            /\ UNCHANGED categories
                            /\ IF ~link_shown
                               THEN \* no subcategory link in time
                                    /\ last_category' = "empty"
                                    /\ ClearSubcategoryLocals
                                    /\ UNCHANGED pc
                               ELSE /\ subcategories' = found
                                    /\ subcategory_started' =
                                          SubcategoryStartedAtEntry(resume_mode,
                                              category.name, resume_category)
                                    /\ si' = 0
                                    /\ pc' = "subcategories"
                                    /\ last_category' = "entered"
    /\ last_page' = "none"
    /\ UNCHANGED <<flags, csv_file, checkpoint_file, resume, resume_name_found,
                   quiet, opens>>

(***************************************************************************)
(* run(), lines 246-270: one pass of the subcategory loop, up to the start *)
(* of the exhibitor loop; or the end of the subcategory loop.  A count of  *)
(* 0 read after a card had shown enters the exhibitor loop like any other  *)
(* count: the loop is left at once and line 355 saves the start index.     *)
(***************************************************************************)
NextSubcategory ==
    /\ pc = "subcategories"
    /\ IF si = Len(subcategories)
       THEN /\ pc' = "categories"
            /\ UNCHANGED <<catvars, subvars, loopvars, checkpoint_file, last_unit>>
       ELSE LET category == categories[ci]
                subcategory == subcategories[si + 1]
            IN IF SubcategorySkipped(resume_mode, category.name, resume_category,
                                     subcategory_started)
               THEN /\ si' = si + 1
                    /\ subcategory_started' =
                          SubcategoryStartedAfter(subcategory_started,
                              subcategory.name, resume_subcategory)
                    /\ last_unit' = "skipped"
                    /\ ClearLoopLocals
                    /\ UNCHANGED <<pc, catvars, subcategories, checkpoint_file>>
               ELSE \E loaded \in GotoResults, shown \in BOOLEAN,
                       count \in SiteCounts(ci, si + 1) :
                       IF ~loaded
                       THEN /\ Raise
                            /\ last_unit' = "goto_failed"
                            /\ UNCHANGED checkpoint_file
                       ELSE IF ~shown
                       THEN \* lines 256-261: the wait for a card timed out
                            /\ si' = si + 1
                            /\ checkpoint_file' =
                                  SaveCheckpoint(category.name, subcategory.name, 0)
                            /\ last_unit' = "no_cards"
                            /\ ClearLoopLocals
                            /\ UNCHANGED <<pc, catvars, subcategories,
                                           subcategory_started>>
                       ELSE /\ si' = si + 1
                            /\ exhibitor_count' = count
                            /\ exhibitor_index' =
                                  StartIndex(resume_mode, category.name,
                                      subcategory.name, resume_category,
                                      resume_subcategory, resume_exhibitor_index)
                            /\ seen_exhibitors' = {}
                            /\ pc' = "exhibitors"
                            /\ last_unit' = "started"
                            /\ UNCHANGED <<catvars, subcategories, subcategory_started,
                                           checkpoint_file>>
    /\ last_page' = "none"
    /\ UNCHANGED <<flags, csv_file, resume, resume_name_found, last_category,
                   quiet, opens>>

(***************************************************************************)
(* The name-skip gate of run().                                            *)
(***************************************************************************)
\* a gate that lets every record through
GateNeverDiscards(found) == FALSE

\* line 322: the record is discarded
GateDiscards(found) == ~found

\* a comparison that does not fold case
NameMatchesExactly(companyName, target) == companyName = Strip(RESUME_AFTER_COMPANY_NAME)

\* line 323: company_name.lower() == resume_after_name
NameMatches(companyName, target) == Lower(companyName) = target

\* lines 322-324: the gate after the record was looked at
GateAfter(found, companyName, target) ==
    found \/ NameMatches(companyName, target)

\* an index that does not advance
SameIndex(index) == index

\* lines 330-331 and 352-353: the index to go on with, which is the one saved
NextIndex(index) == index + 1

(***************************************************************************)
(* run(), lines 271-305 and 355: the head of one iteration of the          *)
(* exhibitor loop, up to the click that opens the detail page; or the end  *)
(* of the loop and the save that follows it.                               *)
(***************************************************************************)
\* a loop that remembers no link target
NeverSeen(href, seen) == FALSE

\* line 298: exhibitor_href in seen_exhibitors
AlreadySeen(href, seen) == href \in seen

\* an index past the cards treated as an error
LoopExitRaises ==
    /\ Raise
    /\ last_unit' = "loop_end"
    /\ UNCHANGED <<checkpoint_file, opens>>

\* lines 271-274 and 355: the loop ends and the final index is saved
LoopExit ==
    /\ checkpoint_file' = SaveCheckpoint(categories[ci].name, subcategories[si].name,
                                         exhibitor_index)
    /\ pc' = "subcategories"
    /\ last_unit' = "loop_end"
    /\ UNCHANGED <<catvars, subvars, loopvars, opens>>

ExhibitorLoop ==
    /\ pc = "exhibitors"
    /\ IF exhibitor_index >= exhibitor_count
       THEN LoopExit
       ELSE \E live \in 0..MaxCards, card \in CardsAfter(opens),
               click_timeout \in BOOLEAN :
                IF exhibitor_index >= live
                THEN \* line 274: the live list has no card at the index
                     LoopExit
                ELSE IF ~card.has_link
                THEN /\ exhibitor_index' = NextIndex(exhibitor_index)
                     /\ last_unit' = "no_link"
                     /\ UNCHANGED <<pc, catvars, subvars, exhibitor_count,
                                    seen_exhibitors, checkpoint_file, opens>>
                ELSE IF AlreadySeen(card.href, seen_exhibitors)
                THEN /\ exhibitor_index' = NextIndex(exhibitor_index)
                     /\ last_unit' = "duplicate"
                     /\ UNCHANGED <<pc, catvars, subvars, exhibitor_count,
                                    seen_exhibitors, checkpoint_file, opens>>
                ELSE IF click_timeout
                THEN \* scroll or click timed out: nothing catches it
                     /\ Raise
                     /\ last_unit' = "click_timeout"
                     /\ UNCHANGED <<checkpoint_file, opens>>
                ELSE /\ seen_exhibitors' = seen_exhibitors \cup {card.href}
                     /\ pc' = "detail"
                     /\ last_unit' = "opened"
                     /\ opens' = opens + 1
                     /\ UNCHANGED <<catvars, subvars, exhibitor_count, exhibitor_index,
                                    checkpoint_file>>
    /\ last_page' = "none"
    /\ UNCHANGED <<flags, csv_file, resume, resume_name_found, last_category, quiet>>

(***************************************************************************)
(* run(), lines 307-348: the detail page is read; the record is dropped,   *)
(* discarded by the gate or appended.  The index and the checkpoint are    *)
(* as they were until the browser has gone back.                           *)
(***************************************************************************)
ReadDetail ==
    /\ pc = "detail"
    /\ \E outcome \in PageIds \cup {"timeout"} :
        LET timed_out == outcome = "timeout"
            details == IF timed_out THEN NoDetails ELSE Details[outcome]
            company_name == Strip(details.fields.company_name)
            discard == details.valid /\ GateDiscards(resume_name_found)
            write == details.valid /\ ~GateDiscards(resume_name_found)
            category == categories[ci]
            subcategory == subcategories[si]
        IN /\ resume_name_found' =
                IF discard
                THEN GateAfter(resume_name_found, company_name, resume_after_name)
                ELSE resume_name_found
           /\ csv_file' =
                IF write
                THEN AppendRow(csv_file,
                         RowLine(category.name, subcategory.name, details.fields))
                ELSE csv_file
           /\ last_unit' = IF timed_out THEN "timeout"
                           ELSE IF ~details.valid THEN "missing"
                           ELSE IF discard THEN "discarded"
                           ELSE "written"
           /\ last_page' = outcome
           /\ last_valid_page' = IF details.valid THEN outcome ELSE last_valid_page
           /\ name_match_seen' =
                (name_match_seen
                    \/ (details.valid /\ Lower(company_name) = TargetName))
    /\ pc' = "back"
    /\ UNCHANGED <<flags, checkpoint_file, resume, catvars, subvars, loopvars,
                   last_category, opens>>

(***************************************************************************)
(* run(), lines 326-331 and 350-353: the browser goes back to the listing, *)
(* the index advances and the checkpoint is saved.                         *)
(***************************************************************************)
GoBack ==
    /\ pc = "back"
    /\ \E back_timeout \in BOOLEAN :
           IF back_timeout
           THEN \* page.go_back timed out: nothing catches it
                /\ Raise
                /\ UNCHANGED checkpoint_file
           ELSE /\ exhibitor_index' = NextIndex(exhibitor_index)
                /\ checkpoint_file' =
                     SaveCheckpoint(categories[ci].name, subcategories[si].name,
                                    NextIndex(exhibitor_index))
                /\ pc' = "exhibitors"
                /\ UNCHANGED <<catvars, subvars, exhibitor_count, seen_exhibitors>>
    /\ UNCHANGED <<flags, csv_file, resume, resume_name_found, history>>

Next ==
    \/ Startup
    \/ ListSubcategories
    \/ NextCategory
    \/ NextSubcategory
    \/ ExhibitorLoop
    \/ ReadDetail
    \/ GoBack

Spec == Init /\ [][Next]_vars

(***************************************************************************)
(* Two invocations.  The first can be interrupted (KeyboardInterrupt)      *)
(* wherever run() stands: like a timeout nothing catches, the interruption *)
(* leaves run().  What it cuts decides what the files hold:                *)
(*   "call"     a browser call of the step that would follow: the files    *)
(*              stay as they are.  At the start that call is the load of   *)
(*              line 190, so lines 181-188 have run: the CSV file exists   *)
(*              and the resume state is set;                               *)
(*   "launch"   the launch of the browser, lines 176-179, before anything  *)
(*              was read or written;                                       *)
(*   "init_csv" _init_csv between open("w") (line 159) and writeheader     *)
(*              (line 161): the CSV file exists and holds no line;         *)
(*   "save"     _save_checkpoint between open("w") (line 151) and          *)
(*              json.dump (line 152): the checkpoint file exists and       *)
(*              holds nothing.  The saves are those of lines 261, 331,     *)
(*              353 and 355.                                               *)
(* Between the reading of a detail page (lines 307-348) and the save that  *)
(* follows the way back the row of the exhibitor is in the output and the  *)
(* checkpoint does not count it yet.  stop records where run() stood;      *)
(* stop.index is the number of cards of the subcategory the first          *)
(* invocation had dealt with.                                              *)
(***************************************************************************)
InterruptCuts ==
    {"call"}
      \cup (IF pc = "start" THEN {"launch"} ELSE {})
      \cup (IF pc = "start" /\ ~csv_file.exists THEN {"init_csv"} ELSE {})
      \cup (IF \/ pc \in {"exhibitors", "back"}
                \/ /\ pc = "subcategories"
                   /\ si < Len(subcategories)
                   /\ ~SubcategorySkipped(resume_mode, categories[ci].name,
                                          resume_category, subcategory_started)
             THEN {"save"} ELSE {})

Interrupt ==
    /\ run = 1
    /\ pc \notin {"done", "failed"}
    /\ stop' = [at |-> pc, categories |-> categories, ci |-> ci,
                subcategories |-> subcategories, si |-> si,
                index |-> IF pc = "back" THEN exhibitor_index + 1
                          ELSE exhibitor_index,
                count |-> exhibitor_count]
    /\ \E cut \in InterruptCuts :
         /\ (cut = "call" /\ pc = "start")
                => ~CheckpointUnreadable(fresh, checkpoint_file)
         /\ csv_file' = IF cut = "call" /\ pc = "start" THEN InitCsv(csv_file)
                        ELSE IF cut = "init_csv" THEN EmptyCsvFile
                        ELSE csv_file
         /\ checkpoint_file' = IF cut = "save" THEN TruncatedCheckpointFile
                               ELSE checkpoint_file
         /\ IF cut = "call" /\ pc = "start"
            THEN LET cp == StartCheckpoint(fresh, checkpoint_file)
                 IN /\ resume_category' = cp.category
                    /\ resume_subcategory' = cp.subcategory
                    /\ resume_exhibitor_index' = cp.exhibitor_index
                    /\ resume_mode' = ResumeMode(cp)
                    /\ resume_after_name' = ResumeAfterName(fresh)
                    /\ resume_name_found' = (Len(ResumeAfterName(fresh)) = 0)
            ELSE UNCHANGED <<resume, resume_name_found>>
    /\ Raise
    /\ last_unit' = "interrupted"
    /\ last_page' = "none"
    /\ UNCHANGED <<list_categories, list_subcategories, fresh, csv0, runs, run,
                   goto_call, goto_result, last_category, quiet, opens>>

(***************************************************************************)
(* __main__ once more: the second invocation follows the first however it  *)
(* ended (run() returned, a timeout nothing caught, an interruption), with *)
(* any flags, on the files the first left.                                 *)
(***************************************************************************)
Restart ==
    /\ runs = 2
    /\ run = 1
    /\ pc \in {"done", "failed"}
    /\ run' = 2
    /\ pc' = "start"
    /\ list_categories' \in BOOLEAN
    /\ list_subcategories' \in BOOLEAN
    /\ fresh' \in BOOLEAN
    /\ csv0' = csv_file
    /\ resume_category' = <<>>
    /\ resume_subcategory' = <<>>
    /\ resume_exhibitor_index' = 0
    /\ resume_mode' = FALSE
    /\ resume_after_name' = <<>>
    /\ resume_name_found' = FALSE
    /\ categories' = <<>>
    /\ ci' = 0
    /\ category_started' = FALSE
    /\ ClearSubcategoryLocals
    /\ ClearLoopLocals
    /\ last_category' = "none"
    /\ last_unit' = "none"
    /\ last_page' = "none"
    /\ last_valid_page' = "none"
    /\ name_match_seen' = FALSE
    /\ opens' = 0
    /\ UNCHANGED <<runs, stop, csv_file, checkpoint_file, goto_call, goto_result>>

InitRestart ==
    /\ InitRun
    /\ runs = 2
    /\ goto_call = NoGotoCall
    /\ goto_result = NoGotoResult

NextRestart ==
    \/ Startup
    \/ ListSubcategories
    \/ NextCategory
    \/ NextSubcategory
    \/ ExhibitorLoop
    \/ ReadDetail
    \/ GoBack
    \/ Interrupt
    \/ Restart

SpecRestart == InitRestart /\ [][NextRestart]_vars

(***************************************************************************)
(* _safe_goto taken alone: one call with retries up to MaxRetries, against *)
(* every way the loads it can make, and one more, can time out.            *)
(***************************************************************************)
GotoCalls ==
    UNION { { [retries |-> r, outcomes |-> o] : o \in GotoOutcomes(r + 1) } :
            r \in 0..MaxRetries }

InitGoto ==
    /\ InitRun
    /\ runs = 1
    /\ list_categories /\ list_subcategories /\ fresh /\ ~csv_file.exists
    /\ goto_call \in GotoCalls
    /\ goto_result = NoGotoResult

GotoCall ==
    /\ goto_call # NoGotoCall
    /\ goto_result = NoGotoResult
    /\ goto_result' = SafeGoto(goto_call.outcomes, goto_call.retries)
    /\ UNCHANGED <<list_categories, list_subcategories, fresh, csv0, runs, run,
                   stop, goto_call, pc, csv_file, checkpoint_file, resume,
                   resume_name_found, catvars, subvars, loopvars, history>>

SpecGoto == InitGoto /\ [][GotoCall]_vars

(***************************************************************************)
(* Where the walk is, for the properties below.                            *)
(***************************************************************************)
Crawl == ~list_categories /\ ~list_subcategories

\* the category loop is inside a category whose page showed subcategories
InCategory == pc \in {"subcategories", "exhibitors", "detail", "back"}

\* the subcategory loop has taken a subcategory, which subcategories[si] is
AtSubcategory == InCategory /\ si >= 1

CategoryName == categories[ci].name

SubcategoryName == subcategories[si].name

\* position k is the first category named like the checkpoint's
FirstCategoryMatch(k) ==
    /\ categories[k].name = resume_category
    /\ \A j \in 1..(k - 1) : categories[j].name # resume_category

\* position k is the first subcategory named like the checkpoint's
FirstSubcategoryMatch(k) ==
    /\ subcategories[k].name = resume_subcategory
    /\ \A j \in 1..(k - 1) : subcategories[j].name # resume_subcategory

\* the checkpoint file holds exactly this position
CheckpointIs(category, subcategory, index) ==
    /\ checkpoint_file.exists /\ checkpoint_file.whole
    /\ checkpoint_file.data.category = category
    /\ checkpoint_file.data.subcategory = subcategory
    /\ checkpoint_file.data.exhibitor_index = index

\* the detail page read by the last step held a record with all six fields
ReadValid(id) == id \in PageIds /\ Details[id].valid

(***************************************************************************)
(* C1.  A run that loads a checkpoint (c, s, i), with c in the category    *)
(* list and s in c's subcategory list, enters subcategory s of category c  *)
(* and starts its exhibitor loop there at index i.  Stated at the first    *)
(* subcategory named s of the first category named c: once the subcategory *)
(* loop has taken it, it was not passed over, and when its exhibitor loop  *)
(* starts, it starts at i.                                                 *)
(***************************************************************************)
C1_ResumeEntersCheckpointed ==
    (resume_mode /\ AtSubcategory /\ FirstCategoryMatch(ci) /\ FirstSubcategoryMatch(si))
        => /\ last_unit # "skipped"
           /\ (last_unit = "started" => exhibitor_index = resume_exhibitor_index)

(***************************************************************************)
(* C2.  With a checkpoint (c, s, i) loaded, every category before the      *)
(* first one named c, and every subcategory of a category named c before   *)
(* the first one named s, is passed over: the step that takes it loads no  *)
(* page, opens no exhibitor, appends no row and saves no checkpoint.       *)
(***************************************************************************)
BeforeResumeCategory ==
    /\ Crawl /\ resume_mode
    /\ ci >= 1
    /\ \A k \in 1..ci : categories[k].name # resume_category

BeforeResumeSubcategory ==
    /\ resume_mode /\ AtSubcategory
    /\ CategoryName = resume_category
    /\ \A k \in 1..si : subcategories[k].name # resume_subcategory

C2_PrecedingSkipped ==
    [][ /\ BeforeResumeCategory' =>
            /\ pc' \in {"categories", "done"}
            /\ last_category' = "skipped"
            /\ csv_file' = csv_file /\ checkpoint_file' = checkpoint_file
            /\ opens' = opens
        /\ BeforeResumeSubcategory' =>
            /\ pc' = "subcategories"
            /\ last_unit' = "skipped"
            /\ csv_file' = csv_file /\ checkpoint_file' = checkpoint_file
            /\ opens' = opens
      ]_vars

C2_Witness ==
    /\ BeforeResumeSubcategory
    /\ ci = 2 /\ last_unit = "skipped"
    /\ categories[1].name # resume_category

(***************************************************************************)
(* C3.  The position skip is one-shot: a subcategory is passed over only   *)
(* in the category that matched the checkpoint's, the first one of that    *)
(* name, and in no category visited after it; and every subcategory other  *)
(* than the pair the checkpoint names starts its exhibitor loop at         *)
(* index 0.                                                                *)
(***************************************************************************)
C3_SkipIsOneShot ==
    (resume_mode /\ AtSubcategory)
        => /\ (last_unit = "skipped" => FirstCategoryMatch(ci))
           /\ (last_unit = "started"
                 /\ ~(CategoryName = resume_category
                        /\ SubcategoryName = resume_subcategory)
               => exhibitor_index = 0)

(***************************************************************************)
(* C4.  In a run that is not fresh, as long as no complete record whose    *)
(* company name equals the target under case folding has been read, no     *)
(* step changes the output file; and the step that reads the first such    *)
(* record does not append it either.                                       *)
(***************************************************************************)
C4_NoRowBeforeMatch ==
    [][ (~fresh /\ pc # "start" /\ ~name_match_seen) => csv_file' = csv_file ]_vars

C4_Witness ==
    /\ ~fresh /\ pc = "exhibitors"
    /\ last_unit = "discarded" /\ last_page = "target"
    /\ csv_file = InitCsv(csv0)

(***************************************************************************)
(* C5.  Once a complete record whose company name equals the target under  *)
(* case folding has been read, the gate is off and stays off, and every    *)
(* complete record read from then on, the target's own included, is        *)
(* appended as one row.                                                    *)
(***************************************************************************)
C5_RowsAfterMatch ==
    [][ /\ (~name_match_seen /\ name_match_seen') => resume_name_found'
        /\ (resume_name_found /\ pc # "start") => resume_name_found'
        /\ (name_match_seen /\ pc = "detail" /\ ReadValid(last_page')) =>
              /\ last_unit' = "written"
              /\ csv_file'.lines =
                    Append(csv_file.lines,
                           RowLine(CategoryName, SubcategoryName,
                                   Details[last_page'].fields))
      ]_vars

C5_Witness ==
    /\ ~fresh /\ name_match_seen
    /\ last_unit = "written" /\ last_page = "target"
    /\ Len(csv_file.lines) = Len(InitCsv(csv0).lines) + 1

(***************************************************************************)
(* C6.  Scenario B: one category, one subcategory, one exhibitor whose     *)
(* detail page yields all six fields.  ScenarioB describes the end of such *)
(* a run; the row is the category name, the subcategory name and the six   *)
(* fields read.  As stated, for a run in default mode, the output ends     *)
(* with exactly that one row added to what the run found.                  *)
(***************************************************************************)
ScenarioB ==
    /\ Crawl /\ pc = "done"
    /\ Len(categories) = 1 /\ last_category = "entered"
    /\ Len(subcategories) = 1 /\ last_unit = "loop_end"
    /\ exhibitor_count = 1 /\ opens = 1
    /\ last_valid_page # "none"

ScenarioBRow ==
    RowLine(categories[1].name, subcategories[1].name, Details[last_valid_page].fields)

C6_DefaultRunWritesTheRow ==
    (ScenarioB /\ ~fresh) => csv_file.lines = Append(InitCsv(csv0).lines, ScenarioBRow)

(***************************************************************************)
(* C6, amended.  The scenario ends with exactly that one row added when    *)
(* the run has the fresh-start flag set, which turns the name gate off.    *)
(***************************************************************************)
C6_FreshRunWritesTheRow ==
    (ScenarioB /\ fresh) => csv_file.lines = Append(InitCsv(csv0).lines, ScenarioBRow)

C6_Witness ==
    /\ ScenarioB /\ fresh
    /\ csv_file.lines = <<CSV_HEADERS, ScenarioBRow>>

(***************************************************************************)
(* C7.  A run with the fresh-start flag set loads no checkpoint and no     *)
(* target name: it passes over no category and no subcategory, starts      *)
(* every exhibitor loop at index 0, appends every complete record it       *)
(* reads, and each save replaces the stored checkpoint by the position the *)
(* new run has reached.                                                    *)
(***************************************************************************)
C7_FreshStart ==
    (fresh /\ pc # "start")
        => /\ ~resume_mode
           /\ resume_name_found
           /\ last_category # "skipped" /\ last_unit # "skipped"
           /\ (last_unit = "started" => exhibitor_index = 0)
           /\ (ReadValid(last_page) => last_unit = "written")
           /\ (pc = "exhibitors"
                 /\ last_unit \in {"written", "missing", "timeout"}
               => CheckpointIs(CategoryName, SubcategoryName, exhibitor_index))

C7_Witness ==
    /\ fresh /\ pc = "exhibitors"
    /\ ci = 1 /\ si = 1 /\ exhibitor_index = 1
    /\ last_unit = "written"
    /\ CheckpointIs(CategoryName, SubcategoryName, 1)
    /\ checkpoint_file # SaveCheckpoint(NameB, NameS2, 1)

(***************************************************************************)
(* C8.  The step that finishes an exhibitor whose detail page was opened   *)
(* (written, discarded by the gate, dropped for a missing field or for a   *)
(* timeout of the wait), the return to the listing after the page was      *)
(* read, moves the index to the next exhibitor and leaves                  *)
(* the checkpoint file holding the current category, the current           *)
(* subcategory and that next index; the step that ends a subcategory's     *)
(* loop leaves it holding the final index.                                 *)
(***************************************************************************)
C8_CheckpointAfterEveryUnit ==
    [][ /\ (pc = "back" /\ pc' = "exhibitors") =>
              /\ last_unit' \in {"written", "discarded", "missing", "timeout"}
              /\ exhibitor_index' = exhibitor_index + 1
              /\ CheckpointIs(CategoryName, SubcategoryName, exhibitor_index)'
        /\ (pc = "exhibitors" /\ pc' = "subcategories") =>
              /\ last_unit' = "loop_end"
              /\ CheckpointIs(CategoryName, SubcategoryName, exhibitor_index)'
      ]_vars

C8_Witness ==
    /\ pc = "subcategories" /\ last_unit = "loop_end"
    /\ last_valid_page # "none" /\ opens = 2
    /\ exhibitor_index = 2
    /\ CheckpointIs(CategoryName, SubcategoryName, 2)

(***************************************************************************)
(* C10.  With a checkpoint (c, s, i) loaded, inside a subcategory named s  *)
(* of a category named c no card at an index below i is examined: the      *)
(* exhibitor loop is never at such an index, so no detail page is open for *)
(* one and no record of one has been handled.                              *)
(***************************************************************************)
C10_NothingBelowTheIndex ==
    (resume_mode /\ pc \in {"exhibitors", "detail", "back"}
       /\ CategoryName = resume_category /\ SubcategoryName = resume_subcategory)
        => /\ exhibitor_index >= resume_exhibitor_index
           /\ (pc = "exhibitors"
                  /\ last_unit \in {"written", "discarded", "missing", "timeout",
                                    "no_link", "duplicate"}
               => exhibitor_index > resume_exhibitor_index)

C10_Witness ==
    /\ resume_mode /\ pc = "exhibitors"
    /\ CategoryName = resume_category /\ SubcategoryName = resume_subcategory
    /\ resume_exhibitor_index = 1 /\ exhibitor_index = 2
    /\ last_unit \in {"written", "discarded"}

(***************************************************************************)
(* C9.  A run interrupted in the crawl and started again from the          *)
(* checkpoint it left goes on within one exhibitor of where it stopped:    *)
(* the second run does not pass over the subcategory in which the first    *)
(* was interrupted with cards left, and it starts that subcategory's loop  *)
(* at the index the first run had reached, or one before it.               *)
(***************************************************************************)
AtStopPosition ==
    /\ run = 2 /\ ~fresh /\ Crawl
    /\ StoppedInLoop /\ stop.index < stop.count
    /\ AtSubcategory /\ ci = stop.ci /\ si = stop.si

C9_RestartResumesWhereStopped ==
    AtStopPosition
        => /\ last_unit # "skipped"
           /\ (last_unit = "started"
               => exhibitor_index \in {stop.index - 1, stop.index})

(***************************************************************************)
(* C11.  A timeout in one exhibitor's processing (the click on the card's  *)
(* link, the wait for the detail page, the way back to the listing) is     *)
(* contained in the exhibitor loop: no step taken inside the exhibitor     *)
(* loop ends the run in failure.                                           *)
(***************************************************************************)
C11_ExhibitorFailuresContained ==
    [][ (pc \in {"exhibitors", "detail", "back"}) => (pc' # "failed") ]_vars

(***************************************************************************)
(* C12.  The step that reads a detail page on which one of the six fields  *)
(* is empty appends nothing, and the return to the listing that follows it *)
(* does not end the run: the index moves to the next card, the checkpoint  *)
(* is saved with it and the exhibitor loop goes on.                        *)
(***************************************************************************)
ReadIncomplete(id) == id \in PageIds /\ ~Details[id].valid

C12_IncompleteRecordSkipped ==
    [][ /\ (pc = "detail" /\ ReadIncomplete(last_page')) =>
              /\ csv_file' = csv_file
              /\ pc' = "back"
        /\ (pc = "back" /\ ReadIncomplete(last_page)) =>
              /\ csv_file' = csv_file
              /\ pc' = "exhibitors"
              /\ exhibitor_index' = exhibitor_index + 1
              /\ CheckpointIs(CategoryName, SubcategoryName, exhibitor_index)'
      ]_vars

(***************************************************************************)
(* C13.  _safe_goto(url, retries = r) makes between one and r + 1 loads;   *)
(* it returns exactly when one of the first r + 1 loads does not time out, *)
(* and then right after the first such load; it raises exactly when all    *)
(* r + 1 time out.                                                         *)
(***************************************************************************)
C13_BoundedRetry ==
    (goto_result # NoGotoResult) =>
        LET r == goto_call.retries
            timed_out == goto_call.outcomes
            loads == goto_result.loads
        IN /\ loads \in 1..(r + 1)
           /\ \A k \in 1..(loads - 1) : timed_out[k]
           /\ goto_result.ok <=> ~timed_out[loads]
           /\ ~goto_result.ok <=> (\A k \in 1..(r + 1) : timed_out[k])

C13_Witness ==
    /\ goto_call.retries = DefaultRetries
    /\ goto_result = [ok |-> FALSE, loads |-> 3]
    /\ goto_call.outcomes[4] = FALSE

(***************************************************************************)
(* C14.  Scenario A: when the landing page loads and no category link ever *)
(* appears on it, the run ends normally with an empty category list: no    *)
(* detail page was opened and the output holds what the initialization     *)
(* left.                                                                   *)
(***************************************************************************)
C14_NoCategoriesExitsCleanly ==
    (last_category = "no_category_link")
        => /\ pc = "done"
           /\ categories = <<>>
           /\ opens = 0
           /\ csv_file = InitCsv(csv0)

(***************************************************************************)
(* C15.  In the list-categories and list-subcategories modes no step       *)
(* changes the output file or the checkpoint file: from start to exit both *)
(* stay as the run found them, absent when they were absent.               *)
(***************************************************************************)
C15_ListModesWriteNothing ==
    [][ (list_categories \/ list_subcategories) =>
            (csv_file' = csv_file /\ checkpoint_file' = checkpoint_file) ]_vars


(***************************************************************************)
(* C17.  Within one subcategory visit a detail page is opened only for a   *)
(* link target not yet seen in that visit, and the target is then          *)
(* remembered; a card whose target was seen is passed by advancing the     *)
(* index only, with no page opened, no row and no checkpoint saved; and    *)
(* every subcategory visit starts with no target seen.                     *)
(***************************************************************************)
C17_DedupWithinVisit ==
    [][ /\ (pc = "exhibitors" /\ pc' = "detail") =>
              /\ \E h \in Hrefs :
                    /\ h \notin seen_exhibitors
                    /\ seen_exhibitors' = seen_exhibitors \cup {h}
              /\ opens' = opens + 1
        /\ (pc = "exhibitors" /\ last_unit' = "duplicate") =>
              /\ pc' = "exhibitors"
              /\ exhibitor_index' = exhibitor_index + 1
              /\ seen_exhibitors' = seen_exhibitors
              /\ opens' = opens
              /\ csv_file' = csv_file
              /\ checkpoint_file' = checkpoint_file
        /\ (pc = "subcategories" /\ pc' = "exhibitors") => seen_exhibitors' = {}
      ]_vars

C17_Witness ==
    /\ pc = "exhibitors" /\ last_unit = "duplicate"
    /\ exhibitor_index = 2 /\ opens = 1
    /\ Cardinality(seen_exhibitors) = 1

(***************************************************************************)
(* C18.  An index outside the card list ends the subcategory's loop and is *)
(* no error: when the index is at or beyond the count read at entry, and   *)
(* whenever the loop ends for lack of a card at the index, the step saves  *)
(* the checkpoint with the index as it is, appends nothing, does not end   *)
(* the run, and the subcategory loop goes on.                              *)
(***************************************************************************)
C18_IndexOutOfRangeEndsLoop ==
    [][ /\ (pc = "exhibitors" /\ exhibitor_index >= exhibitor_count) =>
              pc' = "subcategories"
        /\ (pc = "exhibitors" /\ pc' # "exhibitors" /\ last_unit' = "loop_end") =>
              /\ pc' = "subcategories"
              /\ exhibitor_index' = exhibitor_index
              /\ CheckpointIs(CategoryName, SubcategoryName, exhibitor_index)'
              /\ csv_file' = csv_file
              /\ UNCHANGED <<catvars, subvars>>
      ]_vars

\* the loop ended with cards left by the count: the live list had shrunk
C18_Witness ==
    /\ pc = "subcategories" /\ last_unit = "loop_end"
    /\ exhibitor_index < exhibitor_count
    /\ CheckpointIs(CategoryName, SubcategoryName, exhibitor_index)

(***************************************************************************)
(* C19.  With a checkpoint (c, s, i) loaded whose c names no category of   *)
(* the discovered list, every category is passed over: no step of the      *)
(* category loop loads a page, opens an exhibitor, appends a row or saves  *)
(* a checkpoint, and the run ends normally.                                *)
(***************************************************************************)
NoCategoryMatches ==
    /\ Crawl /\ resume_mode
    /\ pc \in {"categories", "subcategories", "exhibitors", "detail", "back",
              "done"}
    /\ \A k \in 1..Len(categories) : categories[k].name # resume_category

C19_UnknownCategorySkipsAll ==
    [][ (NoCategoryMatches /\ pc # "done") =>
            /\ pc = "categories"
            /\ pc' \in {"categories", "done"}
            /\ (pc' = "done" => ci' = Len(categories))
            /\ (pc' = "categories" => ci' = ci + 1 /\ last_category' = "skipped")
            /\ csv_file' = csv_file
            /\ checkpoint_file' = checkpoint_file
            /\ opens' = opens
      ]_vars

C19_Witness ==
    /\ NoCategoryMatches /\ pc = "done"
    /\ Len(categories) = 2 /\ ci = 2
    /\ last_category = "skipped"
    /\ checkpoint_file = SaveCheckpoint(NameB, NameS2, 2)
    /\ csv_file.lines = <<CSV_HEADERS>>

(***************************************************************************)
(* C20.  The crawl terminates.  Every pass of the exhibitor loop that      *)
(* stays in the loop moves the index up by exactly one (card without link, *)
(* duplicate target, discarded, dropped or written record alike), a card   *)
(* is only examined at an index below the count read at entry, and the run *)
(* reaches its end.  WorkLeft bounds the steps the run can still take: it  *)
(* counts the categories, subcategories and cards ahead, is a natural      *)
(* number, 0 when run() has returned or an exception has left it, and      *)
(* every step makes it smaller; and a run that has not ended can take a    *)
(* step.                                                                   *)
(***************************************************************************)
Ended == pc \in {"done", "failed"}

CardsLeft == IF exhibitor_index < exhibitor_count
             THEN exhibitor_count - exhibitor_index
             ELSE 0

\* steps one subcategory visit takes at most, and one more
SubcategoryWork == 3 * MaxCards + 2

\* steps one category visit takes at most, and one more
CategoryWork == MaxSubs * SubcategoryWork + 3

WorkLeft ==
    LET cats == (Len(categories) - ci) * CategoryWork
        subs == (Len(subcategories) - si) * SubcategoryWork
    IN CASE pc = "start"              -> MaxCats * CategoryWork + 2
         [] pc = "list_subcategories" -> (Len(categories) - ci) + 1
         [] pc = "categories"         -> cats + 1
         [] pc = "subcategories"      -> cats + 2 + subs
         [] pc = "exhibitors"         -> cats + 2 + subs + 3 * CardsLeft + 1
         [] pc = "detail"             -> cats + 2 + subs + 3 * CardsLeft
         [] pc = "back"               -> cats + 2 + subs + 3 * CardsLeft - 1
         [] OTHER                     -> 0

C20_CrawlTerminates ==
    /\ [](~Ended => ENABLED Next)
    /\ [][ /\ WorkLeft \in Nat /\ WorkLeft' \in Nat
           /\ WorkLeft' < WorkLeft
           /\ (pc = "exhibitors" /\ pc' = "exhibitors") =>
                 /\ exhibitor_index < exhibitor_count
                 /\ exhibitor_index' = exhibitor_index + 1
                 /\ exhibitor_count' = exhibitor_count
           /\ (pc = "exhibitors" /\ pc' = "detail") =>
                 /\ exhibitor_index < exhibitor_count
                 /\ exhibitor_index' = exhibitor_index
           /\ (pc = "detail" /\ pc' = "back") =>
                 /\ exhibitor_index < exhibitor_count
                 /\ exhibitor_index' = exhibitor_index
           /\ (pc = "back" /\ pc' = "exhibitors") =>
                 /\ exhibitor_index' = exhibitor_index + 1
                 /\ exhibitor_index' <= exhibitor_count'
         ]_vars

C20_Witness ==
    /\ Crawl /\ pc = "done"
    /\ Len(categories) = MaxCats /\ Len(subcategories) = MaxSubs
    /\ last_unit = "loop_end" /\ opens = MaxOpens
    /\ exhibitor_index = MaxCards

====
